---------------------------- MODULE Spec2Model ----------------------------
(* PgTransaction (src/src/PgTransaction.ts, lines 6-237): a reentrant       *)
(* transaction manager over a pg connection pool.  Every async method is a *)
(* frame on the call stack of the flow that called it; a frame advances    *)
(* from one await to the next in one step.  The pool and the connections   *)
(* are the environment: pool.connect() and each statement either succeed   *)
(* or fail.  Callers, bodies handed to runInTransaction and hooks are      *)
(* arbitrary user code: they call any public method, catch or rethrow.     *)
EXTENDS Integers, Sequences, FiniteSets

\* ------------------------------------------------------------ bounds
MaxDepth == 2      \* user code stops nesting begin() at this beginCounter
MaxCalls == 2      \* calls made by bodies and hooks within one top-level call
MaxHooks == 2      \* registered functions per hook list
MaxN     == 8      \* longest begin^n commit^n script

\* ------------------------------------------------------------ values
None  == "none"
Conns == {"c1", "c2"}
Flows == {"main", "other"}   \* flows of control that may call the manager
Main  == "main"              \* the flow of sequential use

Errors == {"PoolError", "StmtError", "BodyError", "HookError",
           "NoActiveTransaction", "TransactionActive", "ConnectionLost",
           "RollbackFailure", "TypeError"}

AsyncOps == {"connect", "begin", "commit", "rollback", "runInTransaction",
             "query"}
SyncOps  == {"release", "afterBegin", "afterCommit"}
UserOps  == AsyncOps \cup SyncOps

VARIABLES
  client,                              \* this.client (None: undefined)
  beginCounter,                        \* this.beginCounter
  throwingWrongCommitOrRollbackError,  \* the misuse flag
  afterBeginFunctions,                 \* this.afterBeginFunctions
  afterCommitFunctions,                \* this.afterCommitFunctions
  checkedOut,                          \* pool: connections handed out, not yet released
  txOpen,                              \* connection -> its session has BEGIN outstanding
  releasedTwice,                       \* a connection was released while not checked out
  stack,                               \* flow -> call stack of frames
  ret,                                 \* flow -> result of the call that returned last
  calls,                               \* calls made by user code in this top-level call
  tally,                               \* running totals of the events, when switched on
  script                               \* scripted caller: calls still to make

mgr  == <<client, beginCounter, throwingWrongCommitOrRollbackError,
          afterBeginFunctions, afterCommitFunctions>>
pool == <<checkedOut, txOpen, releasedTwice>>
vars == <<mgr, pool, stack, ret, calls, tally, script>>

\* ------------------------------------------------------------ frames
\* op, pc: the method and where it stands; n: beginCounterBefore, or the index
\* of a hook loop; e: the error a catch block caught; conn: the connection a
\* pending statement was sent on; fn: the function passed or run; live, arr:
\* the array a commit's hook loop iterates
F(op) == [op |-> op, pc |-> "start", n |-> 0, e |-> None, conn |-> None,
          fn |-> 0, live |-> TRUE, arr |-> <<>>]

Idle(t)  == stack[t] = <<>>
Top(t)   == stack[t][Len(stack[t])]
Pop(t)   == SubSeq(stack[t], 1, Len(stack[t]) - 1)
At(t, op, pc) == ~Idle(t) /\ Top(t).op = op /\ Top(t).pc = pc

\* the frame stays on top, changed to f
Stay(t, f) ==
  /\ stack' = [stack EXCEPT ![t] = [@ EXCEPT ![Len(@)] = f]]
  /\ UNCHANGED <<ret, calls>>

\* the frame becomes f and awaits the new frame g
Call(t, f, g) ==
  /\ stack' = [stack EXCEPT ![t] = Append([@ EXCEPT ![Len(@)] = f], g)]
  /\ UNCHANGED <<ret, calls>>

\* the frame ends with result r ("ok" or an error)
Return(t, r) ==
  /\ stack' = [stack EXCEPT ![t] = Pop(t)]
  /\ ret' = [ret EXCEPT ![t] = r]
  /\ calls' = IF Len(stack[t]) = 1 THEN 0 ELSE calls

\* ------------------------------------------------------------ events
\* a pool or wire event, or the call of an after-begin function: counted when
\* the tally is switched on
Emit(kind) ==
  tally' = IF tally.on THEN [tally EXCEPT ![kind] = @ + 1] ELSE tally

Quiet == UNCHANGED tally

NoTally == [on |-> FALSE, acquire |-> 0, release |-> 0,
            BEGIN |-> 0, COMMIT |-> 0, ROLLBACK |-> 0, afterBegin |-> 0]

\* PoolClient.release(): the connection goes back to the pool
ClientRelease(c) ==
  /\ checkedOut' = checkedOut \ {c}
  /\ releasedTwice' = (releasedTwice \/ c \notin checkedOut)
  /\ UNCHANGED txOpen
  /\ Emit("release")

\* ------------------------------------------------------------ connect()
\* a connect() that asks the pool whatever it holds
AlwaysConnect == TRUE

\* line 22
NoClient == client = None

ConnectStart(t) ==
  /\ At(t, "connect", "start")
  /\ IF NoClient
       THEN Stay(t, [Top(t) EXCEPT !.pc = "await_pool"])
       ELSE Return(t, "ok")
  /\ Quiet
  /\ UNCHANGED <<mgr, pool, script>>

PoolConnectOk(t) ==
  /\ At(t, "connect", "await_pool")
  /\ \E c \in Conns \ checkedOut :
       /\ checkedOut' = checkedOut \cup {c}
       /\ client' = c
       /\ Emit("acquire")
  /\ Return(t, "ok")
  /\ UNCHANGED <<beginCounter, throwingWrongCommitOrRollbackError,
                 afterBeginFunctions, afterCommitFunctions,
                 txOpen, releasedTwice, script>>

PoolConnectFail(t) ==
  /\ At(t, "connect", "await_pool")
  /\ Return(t, "PoolError")
  /\ Quiet
  /\ UNCHANGED <<mgr, pool, script>>

\* ------------------------------------------------------------ release()
\* a release() without the guard of line 35
ReleaseNeverThrows == FALSE

\* line 35
ReleaseThrows == beginCounter > 0

\* line 39
ReleaseClient == client # None /\ beginCounter = 0

\* the body of release() once it is known whether it throws
ReleaseBody ==
  IF ~ReleaseThrows /\ ReleaseClient
    THEN /\ ClientRelease(client)
         /\ client' = None
         /\ beginCounter' = 0
         /\ throwingWrongCommitOrRollbackError' = FALSE
         /\ UNCHANGED <<afterBeginFunctions, afterCommitFunctions>>
    ELSE /\ Quiet
         /\ UNCHANGED <<mgr, pool>>

Release(t) ==
  /\ At(t, "release", "start")
  /\ ReleaseBody
  /\ Return(t, IF ReleaseThrows THEN "TransactionActive" ELSE "ok")
  /\ UNCHANGED script

\* ------------------------------------------------------------ hooks
\* a loop that leaves out the last function
HooksLeftButLast(arr, i) == i < Len(arr)

\* the for..of loop over a hook array, at index i: call arr[i] or end
HooksLeft(arr, i) == i <= Len(arr)

\* a loop that goes on after a function has thrown, and one that stops only
\* for the errors that functions throw themselves
HookErrorIgnored(t) == FALSE

OnlyOwnErrors(t) == ret[t] = "HookError"

\* await fn() of lines 68 and 104 has thrown: the loop ends and the error
\* leaves the method
HookRaised(t) == ret[t] # "ok"

CallHook(t, arr, i) ==
  Call(t, [Top(t) EXCEPT !.pc = "await_hook", !.n = i, !.conn = None],
          [F("hook") EXCEPT !.fn = arr[i]])

AfterBegin(t) ==
  /\ At(t, "afterBegin", "start")
  /\ afterBeginFunctions' = Append(afterBeginFunctions, Top(t).fn)
  /\ Return(t, "ok")
  /\ Quiet
  /\ UNCHANGED <<client, beginCounter, throwingWrongCommitOrRollbackError,
                 afterCommitFunctions, pool, script>>

AfterCommit(t) ==
  /\ At(t, "afterCommit", "start")
  /\ afterCommitFunctions' = Append(afterCommitFunctions, Top(t).fn)
  /\ Return(t, "ok")
  /\ Quiet
  /\ UNCHANGED <<client, beginCounter, throwingWrongCommitOrRollbackError,
                 afterBeginFunctions, pool, script>>

\* ------------------------------------------------------------ begin()
\* a begin() that opens a transaction of its own at every depth
BeginAlwaysOutermost == TRUE

\* a begin() that still opens one at depth 1
BeginOutermostBelowTwo == beginCounter < 2

\* line 61: does this begin() open the physical transaction?
BeginIsOutermost == beginCounter = 0

\* lines 61-74, entered with the connection question settled
BeginCheck(t) ==
  IF BeginIsOutermost
    THEN IF client = None
           THEN \* this.client!.query on undefined
                /\ Return(t, "TypeError")
                /\ Quiet
                /\ UNCHANGED <<mgr, pool>>
           ELSE /\ Stay(t, [Top(t) EXCEPT !.pc = "await_begin", !.conn = client])
                /\ Emit("BEGIN")
                /\ UNCHANGED <<mgr, pool>>
    ELSE /\ beginCounter' = beginCounter + 1
         /\ Return(t, "ok")
         /\ Quiet
         /\ UNCHANGED <<client, throwingWrongCommitOrRollbackError,
                        afterBeginFunctions, afterCommitFunctions, pool>>

BeginStart(t) ==
  /\ At(t, "begin", "start")
  /\ IF client = None
       THEN /\ Call(t, [Top(t) EXCEPT !.pc = "await_connect"], F("connect"))
            /\ Quiet
            /\ UNCHANGED <<mgr, pool>>
       ELSE BeginCheck(t)
  /\ UNCHANGED script

BeginAfterConnect(t) ==
  /\ At(t, "begin", "await_connect")
  /\ IF ret[t] # "ok"
       THEN /\ Return(t, ret[t])
            /\ Quiet
            /\ UNCHANGED <<mgr, pool>>
       ELSE BeginCheck(t)
  /\ UNCHANGED script

\* BEGIN succeeded: count it, then run the after-begin functions
BeginStmtOk(t) ==
  /\ At(t, "begin", "await_begin")
  /\ txOpen' = [txOpen EXCEPT ![Top(t).conn] = TRUE]
  /\ beginCounter' = beginCounter + 1
  /\ IF HooksLeft(afterBeginFunctions, 1)
       THEN CallHook(t, afterBeginFunctions, 1) /\ Emit("afterBegin")
       ELSE Return(t, "ok") /\ Quiet
  /\ UNCHANGED <<client, throwingWrongCommitOrRollbackError, afterBeginFunctions,
                 afterCommitFunctions, checkedOut, releasedTwice, script>>

BeginStmtFail(t) ==
  /\ At(t, "begin", "await_begin")
  /\ Return(t, "StmtError")
  /\ Quiet
  /\ UNCHANGED <<mgr, pool, script>>

BeginAfterHook(t) ==
  /\ At(t, "begin", "await_hook")
  /\ IF HookRaised(t)
       THEN Return(t, ret[t]) /\ Quiet
       ELSE IF HooksLeft(afterBeginFunctions, Top(t).n + 1)
              THEN /\ CallHook(t, afterBeginFunctions, Top(t).n + 1)
                   /\ Emit("afterBegin")
              ELSE Return(t, "ok") /\ Quiet
  /\ UNCHANGED <<mgr, pool, script>>

\* ------------------------------------------------------------ commit()
\* the guard of lines 83 and 121, off by one
NotRunningBelowZero == beginCounter < 0

\* lines 83 and 121: no transaction to commit or to roll back
NotRunning == beginCounter <= 0

\* a commit() that only ever counts down
CommitNeverOutermost == FALSE

\* line 93: does this commit() end the physical transaction?
CommitIsOutermost == beginCounter = 1

\* line 111
CommitNested == beginCounter - 1

CommitStart(t) ==
  /\ At(t, "commit", "start")
  /\ IF NotRunning
       THEN /\ throwingWrongCommitOrRollbackError' = TRUE
            /\ Return(t, "NoActiveTransaction")
            /\ Quiet
            /\ UNCHANGED <<client, beginCounter, afterBeginFunctions,
                           afterCommitFunctions, pool>>
       ELSE IF client = None
         THEN /\ Return(t, "ConnectionLost")
              /\ Quiet
              /\ UNCHANGED <<mgr, pool>>
         ELSE IF CommitIsOutermost
           THEN /\ Stay(t, [Top(t) EXCEPT !.pc = "await_commit", !.conn = client])
                /\ Emit("COMMIT")
                /\ UNCHANGED <<mgr, pool>>
           ELSE /\ beginCounter' = CommitNested
                /\ Return(t, "ok")
                /\ Quiet
                /\ UNCHANGED <<client, throwingWrongCommitOrRollbackError,
                               afterBeginFunctions, afterCommitFunctions, pool>>
  /\ UNCHANGED script

\* the array a commit frame iterates: this.afterCommitFunctions as it was when
\* the loop began; an assignment of [] to the field leaves that array behind
LoopArray(f) == IF f.live THEN afterCommitFunctions ELSE f.arr

Detach(s) ==
  [i \in DOMAIN s |->
     IF s[i].op = "commit" /\ s[i].pc = "await_hook" /\ s[i].live
       THEN [s[i] EXCEPT !.live = FALSE, !.arr = afterCommitFunctions]
       ELSE s[i]]

\* line 107, then return: this.afterCommitFunctions = []
CommitClear(t) ==
  /\ afterCommitFunctions' = <<>>
  /\ stack' = [u \in Flows |-> Detach(IF u = t THEN Pop(t) ELSE stack[u])]
  /\ ret' = [ret EXCEPT ![t] = "ok"]
  /\ calls' = IF Len(stack[t]) = 1 THEN 0 ELSE calls

\* an outermost commit() that forgets to reset the counter
CommitCounterKept == beginCounter

\* line 99
CommitCounter == 0

CommitStmtOk(t) ==
  /\ At(t, "commit", "await_commit")
  /\ IF client = None
       THEN \* this.client.release() on undefined
            /\ txOpen' = [txOpen EXCEPT ![Top(t).conn] = FALSE]
            /\ Return(t, "TypeError")
            /\ Quiet
            /\ UNCHANGED <<mgr, checkedOut, releasedTwice>>
       ELSE /\ txOpen' = [txOpen EXCEPT ![Top(t).conn] = FALSE]
            /\ checkedOut' = checkedOut \ {client}
            /\ releasedTwice' = (releasedTwice \/ client \notin checkedOut)
            /\ Emit("release")
            /\ client' = None
            /\ beginCounter' = CommitCounter
            /\ throwingWrongCommitOrRollbackError' = FALSE
            /\ UNCHANGED afterBeginFunctions
            /\ IF HooksLeft(afterCommitFunctions, 1)
                 THEN /\ CallHook(t, afterCommitFunctions, 1)
                      /\ UNCHANGED afterCommitFunctions
                 ELSE CommitClear(t)
  /\ UNCHANGED script

CommitStmtFail(t) ==
  /\ At(t, "commit", "await_commit")
  /\ Return(t, "StmtError")
  /\ Quiet
  /\ UNCHANGED <<mgr, pool, script>>

\* a commit() that clears the list also when a function has thrown
ListClearedAfterRaise == <<>>

\* lines 103-107: the error of await fn() leaves the method before line 107,
\* so the field keeps the array it has
ListAfterRaise == afterCommitFunctions

CommitAfterHook(t) ==
  /\ At(t, "commit", "await_hook")
  /\ IF HookRaised(t)
       THEN /\ Return(t, ret[t])
            /\ afterCommitFunctions' = ListAfterRaise
       ELSE IF HooksLeft(LoopArray(Top(t)), Top(t).n + 1)
              THEN /\ CallHook(t, LoopArray(Top(t)), Top(t).n + 1)
                   /\ UNCHANGED afterCommitFunctions
              ELSE CommitClear(t)
  /\ Quiet
  /\ UNCHANGED <<client, beginCounter, throwingWrongCommitOrRollbackError,
                 afterBeginFunctions, pool, script>>

\* ------------------------------------------------------------ rollback()
\* a rollback() that takes back one begin() only
RollbackOneLevel == beginCounter - 1

\* line 136
RollbackCounter == 0

RollbackStart(t) ==
  /\ At(t, "rollback", "start")
  /\ IF NotRunning
       THEN /\ throwingWrongCommitOrRollbackError' = TRUE
            /\ Return(t, "NoActiveTransaction")
            /\ Quiet
            /\ UNCHANGED <<client, beginCounter, afterBeginFunctions,
                           afterCommitFunctions, pool>>
       ELSE IF client = None
         THEN /\ Return(t, "ConnectionLost")
              /\ Quiet
              /\ UNCHANGED <<mgr, pool>>
         ELSE /\ Stay(t, [Top(t) EXCEPT !.pc = "await_rollback", !.conn = client])
              /\ Emit("ROLLBACK")
              /\ UNCHANGED <<mgr, pool>>
  /\ UNCHANGED script

RollbackStmtOk(t) ==
  /\ At(t, "rollback", "await_rollback")
  /\ txOpen' = [txOpen EXCEPT ![Top(t).conn] = FALSE]
  /\ IF client = None
       THEN \* this.client.release() on undefined
            /\ Return(t, "TypeError")
            /\ Quiet
            /\ UNCHANGED <<mgr, checkedOut, releasedTwice>>
       ELSE /\ checkedOut' = checkedOut \ {client}
            /\ releasedTwice' = (releasedTwice \/ client \notin checkedOut)
            /\ Emit("release")
            /\ client' = None
            /\ beginCounter' = RollbackCounter
            /\ throwingWrongCommitOrRollbackError' = FALSE
            /\ Return(t, "ok")
            /\ UNCHANGED <<afterBeginFunctions, afterCommitFunctions>>
  /\ UNCHANGED script

RollbackStmtFail(t) ==
  /\ At(t, "rollback", "await_rollback")
  /\ Return(t, "StmtError")
  /\ Quiet
  /\ UNCHANGED <<mgr, pool, script>>

\* ------------------------------------------------------------ runInTransaction()
RunStart(t) ==
  /\ At(t, "runInTransaction", "start")
  /\ Call(t, [Top(t) EXCEPT !.pc = "await_begin", !.n = beginCounter],
             F("begin"))
  /\ Quiet
  /\ UNCHANGED <<mgr, pool, script>>

\* a loop that commits once more than needed, and one that stops one short
MustCommitOnceMore(before) == beginCounter >= before

MustCommitOneLess(before) == beginCounter > before + 1

\* line 161: the loop that commits until the counter is back at its value
\* from before
MustCommit(before) == beginCounter > before

CommitLoop(t) ==
  /\ IF MustCommit(Top(t).n)
       THEN Call(t, [Top(t) EXCEPT !.pc = "await_commit"], F("commit"))
       ELSE Return(t, "ok")
  /\ Quiet
  /\ UNCHANGED <<mgr, pool>>

\* line 173 and line 174
CatchCleansUp == beginCounter > 0

CatchRollsBack == ~throwingWrongCommitOrRollbackError

\* lines 169-193: the catch block, entered with the error e
Catch(t, e) ==
  IF CatchCleansUp
    THEN IF CatchRollsBack
           THEN /\ Call(t, [Top(t) EXCEPT !.pc = "await_rollback", !.e = e],
                           F("rollback"))
                /\ Quiet
                /\ UNCHANGED <<mgr, pool>>
           ELSE /\ ReleaseBody
                /\ Return(t, IF ReleaseThrows THEN "TransactionActive" ELSE e)
    ELSE /\ Return(t, e)
         /\ Quiet
         /\ UNCHANGED <<mgr, pool>>

RunAfterBegin(t) ==
  /\ At(t, "runInTransaction", "await_begin")
  /\ IF ret[t] # "ok"
       THEN Catch(t, ret[t])
       ELSE /\ Call(t, [Top(t) EXCEPT !.pc = "await_code"], F("body"))
            /\ Quiet
            /\ UNCHANGED <<mgr, pool>>
  /\ UNCHANGED script

RunAfterCode(t) ==
  /\ At(t, "runInTransaction", "await_code")
  /\ IF ret[t] # "ok" THEN Catch(t, ret[t]) ELSE CommitLoop(t)
  /\ UNCHANGED script

RunAfterCommit(t) ==
  /\ At(t, "runInTransaction", "await_commit")
  /\ IF ret[t] # "ok" THEN Catch(t, ret[t]) ELSE CommitLoop(t)
  /\ UNCHANGED script

\* lines 177-189: after the rollback of the catch block
RunAfterRollback(t) ==
  /\ At(t, "runInTransaction", "await_rollback")
  /\ ReleaseBody
  /\ Return(t, IF ReleaseThrows THEN "TransactionActive"
               ELSE IF ret[t] # "ok" THEN "RollbackFailure"
               ELSE Top(t).e)
  /\ UNCHANGED script

\* ------------------------------------------------------------ query()
\* where pool.query() sends a statement: on a connection of its own
Pool == "pool"

\* a query() that goes by the client field, as the README has it
QueryByClient == client = None

\* line 231
QueryUsesPool == beginCounter = 0

\* lines 231-235: the statement is handed to the pool or to the client
QueryStart(t) ==
  /\ At(t, "query", "start")
  /\ IF QueryUsesPool
       THEN Stay(t, [Top(t) EXCEPT !.pc = "await_query", !.conn = Pool])
       ELSE IF client = None
         THEN \* this.client!.query on undefined
              Return(t, "TypeError")
         ELSE Stay(t, [Top(t) EXCEPT !.pc = "await_query", !.conn = client])
  /\ Quiet
  /\ UNCHANGED <<mgr, pool, script>>

QueryOk(t) ==
  /\ At(t, "query", "await_query")
  /\ Return(t, "ok")
  /\ Quiet
  /\ UNCHANGED <<mgr, pool, script>>

QueryFail(t) ==
  /\ At(t, "query", "await_query")
  /\ Return(t, "StmtError")
  /\ Quiet
  /\ UNCHANGED <<mgr, pool, script>>

\* ------------------------------------------------------------ user code
\* A body or a hook: any sequence of calls on the manager, each awaited, an
\* error of a call caught or rethrown; it ends by returning or by throwing.
IsCode(t) == ~Idle(t) /\ Top(t).op \in {"body", "hook"}

OwnError(f) == IF f.op = "hook" THEN "HookError" ELSE "BodyError"

\* calls the model lets user code make: the bounds of the model
MayCall(op) ==
  CASE op \in {"begin", "runInTransaction"} -> beginCounter < MaxDepth
    [] op = "afterBegin"  -> Len(afterBeginFunctions) < MaxHooks
    [] op = "afterCommit" -> Len(afterCommitFunctions) < MaxHooks
    [] OTHER -> TRUE

\* the function handed to afterBegin / afterCommit: the next one not yet
\* listed; after-begin functions are 1, 2, ..., after-commit functions -1, -2, ...
Arg(op) ==
  CASE op = "afterBegin"  -> Len(afterBeginFunctions) + 1
    [] op = "afterCommit" -> 0 - (Len(afterCommitFunctions) + 1)
    [] OTHER -> 0

NewCall(op) == [F(op) EXCEPT !.fn = Arg(op)]

CodeCall(t, op) ==
  /\ IsCode(t)
  /\ calls < MaxCalls
  /\ MayCall(op)
  /\ stack' = [stack EXCEPT ![t] =
                 Append([@ EXCEPT ![Len(@)].pc = "called"], NewCall(op))]
  /\ calls' = calls + 1
  /\ Quiet
  /\ UNCHANGED <<mgr, pool, ret, script>>

CodeReturn(t) ==
  /\ IsCode(t)
  /\ Return(t, "ok")
  /\ Quiet
  /\ UNCHANGED <<mgr, pool, script>>

CodeThrow(t) ==
  /\ IsCode(t)
  /\ Return(t, OwnError(Top(t)))
  /\ Quiet
  /\ UNCHANGED <<mgr, pool, script>>

CodeRethrow(t) ==
  /\ IsCode(t)
  /\ Top(t).pc = "called"
  /\ ret[t] \in Errors
  /\ Return(t, ret[t])
  /\ Quiet
  /\ UNCHANGED <<mgr, pool, script>>

\* the caller of the manager, between two calls
TopCall(t, op) ==
  /\ Idle(t)
  /\ MayCall(op)
  /\ stack' = [stack EXCEPT ![t] = <<NewCall(op)>>]
  /\ ret' = [ret EXCEPT ![t] = None]
  /\ Quiet
  /\ UNCHANGED <<mgr, pool, calls, script>>

\* the scripted caller: makes the next call of its script
ScriptCall(t) ==
  /\ Idle(t)
  /\ script.todo # <<>>
  /\ stack' = [stack EXCEPT ![t] = <<F(Head(script.todo))>>]
  /\ script' = [script EXCEPT !.todo = Tail(@)]
  /\ ret' = [ret EXCEPT ![t] = None]
  /\ Quiet
  /\ UNCHANGED <<mgr, pool, calls>>

\* ------------------------------------------------------------ specifications
NoScript == [n |-> 0, todo |-> <<>>]

Init ==
  /\ client = None
  /\ beginCounter = 0
  /\ throwingWrongCommitOrRollbackError = FALSE
  /\ afterBeginFunctions = <<>>
  /\ afterCommitFunctions = <<>>
  /\ checkedOut = {}
  /\ txOpen = [c \in Conns |-> FALSE]
  /\ releasedTwice = FALSE
  /\ stack = [t \in Flows |-> <<>>]
  /\ ret = [t \in Flows |-> None]
  /\ calls = 0
  /\ tally = NoTally
  /\ script = NoScript

\* one step of whatever method the flow is in
MethodOk(t) ==
  \/ ConnectStart(t) \/ PoolConnectOk(t)
  \/ Release(t) \/ AfterBegin(t) \/ AfterCommit(t)
  \/ BeginStart(t) \/ BeginAfterConnect(t) \/ BeginStmtOk(t) \/ BeginAfterHook(t)
  \/ CommitStart(t) \/ CommitStmtOk(t) \/ CommitAfterHook(t)
  \/ RollbackStart(t) \/ RollbackStmtOk(t)
  \/ RunStart(t) \/ RunAfterBegin(t) \/ RunAfterCode(t) \/ RunAfterCommit(t)
  \/ RunAfterRollback(t)
  \/ QueryStart(t) \/ QueryOk(t)

\* the pool or a statement fails
Fault(t) ==
  \/ PoolConnectFail(t) \/ BeginStmtFail(t) \/ CommitStmtFail(t)
  \/ RollbackStmtFail(t) \/ QueryFail(t)

UserCode(t) ==
  \/ \E op \in UserOps : CodeCall(t, op)
  \/ CodeReturn(t) \/ CodeThrow(t) \/ CodeRethrow(t)

\* sequential use: one flow, every call awaited before the next one
Next ==
  \/ \E op \in UserOps : TopCall(Main, op)
  \/ UserCode(Main)
  \/ MethodOk(Main)
  \/ Fault(Main)

Spec == Init /\ [][Next]_vars

\* ------------------------------------------------------------ scripted use
\* begin() n times, then commit() n times, on a fresh manager, nothing failing
Calls(op, n) == [i \in 1..n |-> op]

InitScript ==
  /\ client = None
  /\ beginCounter = 0
  /\ throwingWrongCommitOrRollbackError = FALSE
  /\ afterBeginFunctions = <<>>
  /\ afterCommitFunctions = <<>>
  /\ checkedOut = {}
  /\ txOpen = [c \in Conns |-> FALSE]
  /\ releasedTwice = FALSE
  /\ stack = [t \in Flows |-> <<>>]
  /\ ret = [t \in Flows |-> None]
  /\ calls = 0
  /\ tally = [NoTally EXCEPT !.on = TRUE]
  /\ \E n \in 1..MaxN :
       script = [n |-> n, todo |-> Calls("begin", n) \o Calls("commit", n)]

NextScript ==
  \/ ScriptCall(Main)
  \/ BeginStart(Main) \/ ConnectStart(Main) \/ PoolConnectOk(Main)
  \/ BeginAfterConnect(Main) \/ BeginStmtOk(Main)
  \/ CommitStart(Main) \/ CommitStmtOk(Main)

SpecScript == InitScript /\ [][NextScript]_vars

\* ------------------------------------------------------------ bodies that only begin
\* A caller that uses begin(), commit(), rollback() and runInTransaction()
\* only, the pool and the statements free to fail, no hooks; a body handed
\* to runInTransaction calls begin() some times and returns.
CallerOps == {"begin", "commit", "rollback", "runInTransaction"}

NextNest ==
  \/ \E op \in CallerOps : TopCall(Main, op)
  \/ CodeCall(Main, "begin") \/ CodeReturn(Main)
  \/ ConnectStart(Main) \/ PoolConnectOk(Main)
  \/ BeginStart(Main) \/ BeginAfterConnect(Main) \/ BeginStmtOk(Main)
  \/ CommitStart(Main) \/ CommitStmtOk(Main)
  \/ RollbackStart(Main) \/ RollbackStmtOk(Main)
  \/ RunStart(Main) \/ RunAfterBegin(Main) \/ RunAfterCode(Main)
  \/ RunAfterCommit(Main) \/ RunAfterRollback(Main)
  \/ PoolConnectFail(Main) \/ BeginStmtFail(Main)
  \/ CommitStmtFail(Main) \/ RollbackStmtFail(Main)

SpecNest == Init /\ [][NextNest]_vars

\* ------------------------------------------------------------ hooks that return
\* As Next, but no hook raises: a hook catches the error of a call it made
\* and ends by returning; bodies raise as before.
BodyRaises(t) ==
  /\ IsCode(t)
  /\ Top(t).op = "body"
  /\ (CodeThrow(t) \/ CodeRethrow(t))

NextCalm ==
  \/ \E op \in UserOps : TopCall(Main, op)
  \/ \E op \in UserOps : CodeCall(Main, op)
  \/ CodeReturn(Main)
  \/ BodyRaises(Main)
  \/ MethodOk(Main)
  \/ Fault(Main)

SpecCalm == Init /\ [][NextCalm]_vars

\* ------------------------------------------------------------ overlapping begins
\* Two flows call begin() on the same manager, neither awaiting the other;
\* the manager is fresh, but for an after-begin function it may have been
\* given.  Once both calls have returned, the caller ends the transaction
\* with rollback() and calls release().
InitOverlap ==
  /\ client = None
  /\ beginCounter = 0
  /\ throwingWrongCommitOrRollbackError = FALSE
  /\ afterBeginFunctions \in {<<>>, <<1>>}
  /\ afterCommitFunctions = <<>>
  /\ checkedOut = {}
  /\ txOpen = [c \in Conns |-> FALSE]
  /\ releasedTwice = FALSE
  /\ stack = [t \in Flows |-> <<>>]
  /\ ret = [t \in Flows |-> None]
  /\ calls = 0
  /\ tally = [NoTally EXCEPT !.on = TRUE]
  /\ script = NoScript

\* the flow has not called begin() yet
NotBegun(t) == Idle(t) /\ ret[t] = None

\* both calls of begin() have returned
BothBegun == \A t \in Flows : Idle(t) /\ ret[t] # None

NextOverlap ==
  \/ \E t \in Flows : NotBegun(t) /\ TopCall(t, "begin")
  \/ \E t \in Flows :
       \/ BeginStart(t) \/ ConnectStart(t) \/ PoolConnectOk(t)
       \/ BeginAfterConnect(t) \/ BeginStmtOk(t) \/ BeginAfterHook(t)
       \/ CodeReturn(t)
  \/ \E op \in {"rollback", "release"} : BothBegun /\ TopCall(Main, op)
  \/ RollbackStart(Main) \/ RollbackStmtOk(Main) \/ Release(Main)

SpecOverlap == InitOverlap /\ [][NextOverlap]_vars

\* ------------------------------------------------------------ properties
\* the frame on top of the flow's stack ends in this step
Popped(t) == ~Idle(t) /\ stack'[t] = Pop(t)

Returned(t, r) == Popped(t) /\ ret'[t] = r

\* the frame on top after this step
TopNext(t) == stack'[t][Len(stack'[t])]

\* the frame that awaits the frame on top
Caller(t) == stack[t][Len(stack[t]) - 1]

HasCaller(t, op, pc) ==
  Len(stack[t]) >= 2 /\ Caller(t).op = op /\ Caller(t).pc = pc

\* calls of the script that have been made
Made == 2 * script.n - Len(script.todo)

Bit(b) == IF b THEN 1 ELSE 0

\* C1: after the k-th call of begin^n commit^n the depth is k (k <= n) or
\* 2n - k (k > n), every call has succeeded, and from the first begin on
\* exactly one BEGIN was issued and one connection acquired, while COMMIT and
\* the release of the connection happen once, in the last commit, not before.
C1_BeginsThenCommits ==
  Idle(Main) =>
    /\ beginCounter = IF Made <= script.n THEN Made ELSE 2 * script.n - Made
    /\ Made >= 1 => ret[Main] = "ok"
    /\ tally.BEGIN = Bit(Made >= 1)
    /\ tally.acquire = Bit(Made >= 1)
    /\ tally.COMMIT = Bit(Made = 2 * script.n)
    /\ tally.release = Bit(Made = 2 * script.n)
    /\ tally.ROLLBACK = 0
    /\ (client # None) = (beginCounter > 0)

C1_Witness ==
  /\ Idle(Main)
  /\ script.n >= 3
  /\ script.todo = <<>>
  /\ beginCounter = 0
  /\ tally.COMMIT = 1

\* C2: rollback() at depth d >= 1 sends one ROLLBACK on the held connection
\* and changes nothing else until the statement is answered; when it
\* succeeds, the connection goes back to the pool, the client field is
\* cleared, depth is 0 whatever d was, and no hook is called nor any hook
\* list changed.
C2_RollbackCollapses ==
  [][/\ (At(Main, "rollback", "start") /\ beginCounter >= 1 /\ client # None)
          => /\ stack'[Main] = [stack[Main] EXCEPT ![Len(stack[Main])] =
                                  [Top(Main) EXCEPT !.pc = "await_rollback",
                                                    !.conn = client]]
             /\ UNCHANGED <<mgr, pool>>
     /\ (At(Main, "rollback", "await_rollback") /\ beginCounter >= 1
           /\ ret'[Main] = "ok")
          => /\ Popped(Main)
             /\ beginCounter' = 0
             /\ client' = None
             /\ client \notin checkedOut'
             /\ txOpen'[Top(Main).conn] = FALSE
             /\ ~releasedTwice'
             /\ UNCHANGED <<afterBeginFunctions, afterCommitFunctions>>
    ]_vars

C2_Witness ==
  /\ At(Main, "rollback", "await_rollback")
  /\ beginCounter = 2
  /\ Top(Main).conn = client

\* C3: when the body only calls begin() and returns, a runInTransaction()
\* that returns leaves depth at baseDepth, and the commit() of its loop
\* that sends COMMIT belongs to a runInTransaction entered at depth 0.
C3_BalancesExtraBegins ==
  [][/\ (~Idle(Main) /\ Top(Main).op = "runInTransaction"
           /\ Returned(Main, "ok"))
          => beginCounter' = Top(Main).n
     /\ (At(Main, "commit", "start")
           /\ HasCaller(Main, "runInTransaction", "await_commit")
           /\ ~Popped(Main) /\ TopNext(Main).pc = "await_commit")
          => Caller(Main).n = 0
    ]_vars

\* the loop has committed once and the body's extra begin() is still open
C3_Witness ==
  /\ At(Main, "runInTransaction", "await_commit")
  /\ ret[Main] = "ok"
  /\ beginCounter = Top(Main).n + 1

\* C4 as claimed: whatever the body did, a runInTransaction() that returns
\* leaves depth at baseDepth.
C4_AlwaysBaseDepth ==
  [][(~Idle(Main) /\ Top(Main).op = "runInTransaction" /\ Returned(Main, "ok"))
        => beginCounter' = Top(Main).n
    ]_vars

\* C4, amended: a runInTransaction() whose body returned leaves depth at the
\* smaller of baseDepth and the depth d the body left.  With d <= baseDepth
\* it returns at once and leaves d; with d > baseDepth it calls commit(), and
\* when it returns after its commits depth is baseDepth.
C4_MinOfBaseAndBodyDepth ==
  [][/\ (At(Main, "runInTransaction", "await_code") /\ ret[Main] = "ok"
           /\ beginCounter <= Top(Main).n)
          => Returned(Main, "ok") /\ beginCounter' = beginCounter
     /\ (At(Main, "runInTransaction", "await_code") /\ ret[Main] = "ok"
           /\ beginCounter > Top(Main).n)
          => /\ ~Popped(Main)
             /\ TopNext(Main).op = "commit"
             /\ beginCounter' = beginCounter
     /\ (At(Main, "runInTransaction", "await_commit") /\ Returned(Main, "ok"))
          => beginCounter' = Top(Main).n
    ]_vars

\* the body has returned with depth below baseDepth
C4_Witness ==
  /\ At(Main, "runInTransaction", "await_code")
  /\ ret[Main] = "ok"
  /\ beginCounter < Top(Main).n

\* C5: when the error of the body reaches runInTransaction() with depth > 0,
\* the next thing runInTransaction() does is to call rollback(); and when the
\* rollback() of its catch block has succeeded, it ends with depth 0 and the
\* connection back in the pool.
C5_BodyErrorRollsBack ==
  [][/\ (At(Main, "runInTransaction", "await_code") /\ ret[Main] \in Errors
           /\ beginCounter > 0)
          => ~Popped(Main) /\ TopNext(Main).op = "rollback"
     /\ (At(Main, "runInTransaction", "await_rollback") /\ ret[Main] = "ok")
          => /\ Popped(Main)
             /\ beginCounter' = 0 /\ client' = None /\ checkedOut' = {}
    ]_vars

\* C6: a runInTransaction() that ends with an error leaves depth 0 and no
\* connection held or checked out.
C6_FailureLeavesNothingHeld ==
  [][(~Idle(Main) /\ Top(Main).op = "runInTransaction" /\ Popped(Main)
        /\ ret'[Main] \in Errors)
        => beginCounter' = 0 /\ client' = None /\ checkedOut' = {}
    ]_vars

\* C7: commit() and rollback() at depth 0 end at once with
\* NoActiveTransaction and the misuse flag set; depth, the client field, both
\* hook lists and the pool are as before and no statement was sent; the same
\* holds when the flag was set already (a repeated call).
C7_MisuseAtDepthZero ==
  [][((At(Main, "commit", "start") \/ At(Main, "rollback", "start"))
        /\ beginCounter = 0)
        => /\ Returned(Main, "NoActiveTransaction")
           /\ throwingWrongCommitOrRollbackError'
           /\ UNCHANGED <<client, beginCounter, afterBeginFunctions,
                          afterCommitFunctions, pool, tally>>
    ]_vars

\* a second such call, the first one having failed
C7_Witness ==
  /\ At(Main, "commit", "start") \/ At(Main, "rollback", "start")
  /\ ret[Main] = "NoActiveTransaction"
  /\ throwingWrongCommitOrRollbackError
  /\ beginCounter = 0

\* C8: release() at depth > 0 fails with TransactionActive and changes
\* neither the manager nor the pool; at depth 0 with a connection held it
\* returns the connection to the pool and clears the client field; with no
\* connection held it changes nothing.
C8_Release ==
  [][At(Main, "release", "start")
        => /\ Popped(Main)
           /\ beginCounter > 0
                => /\ ret'[Main] = "TransactionActive"
                   /\ UNCHANGED <<mgr, pool>>
           /\ (beginCounter = 0 /\ client # None)
                => /\ ret'[Main] = "ok"
                   /\ client' = None
                   /\ checkedOut' = checkedOut \ {client}
                   /\ client \notin checkedOut'
                   /\ beginCounter' = 0
           /\ (beginCounter = 0 /\ client = None)
                => /\ ret'[Main] = "ok"
                   /\ UNCHANGED <<mgr, pool>>
    ]_vars

\* release() has been refused inside a transaction
C8_Witness ==
  /\ ret[Main] = "TransactionActive"
  /\ beginCounter > 0
  /\ client \in checkedOut
  /\ Idle(Main) \/ IsCode(Main)

\* C9: where the caller, a body or a hook has control, depth >= 0 and
\* depth > 0 implies that a connection is held; no call has ended with
\* ConnectionLost.
C9_DepthImpliesConnection ==
  /\ (Idle(Main) \/ IsCode(Main))
       => /\ beginCounter >= 0
          /\ beginCounter > 0 => client # None
  /\ \A t \in Flows : ret[t] # "ConnectionLost"

\* a body goes on inside the transaction after a COMMIT or ROLLBACK failed
C9_Witness ==
  /\ IsCode(Main)
  /\ ret[Main] = "StmtError"
  /\ beginCounter > 0
  /\ client # None

\* C10: the connections the pool has handed out and not got back are the one
\* in the client field, or none when the field is empty; the pool is asked
\* only when the field is empty; no connection is released twice.
C10_OneConnection ==
  /\ checkedOut = IF client = None THEN {} ELSE {client}
  /\ \A t \in Flows : At(t, "connect", "await_pool") => client = None
  /\ ~releasedTwice

\* connect() called again with the connection held
C10_Witness ==
  /\ At(Main, "connect", "start")
  /\ client # None
  /\ beginCounter = 0

\* a step that calls a hook: the frame on top awaits a new hook frame
CallsHook(t) ==
  /\ ~Idle(t)
  /\ Len(stack'[t]) = Len(stack[t]) + 1
  /\ TopNext(t).op = "hook"

\* a commit() of this flow is in the middle of its pass over the array that
\* the field afterCommitFunctions holds
PassInProgress(t) ==
  \E i \in 1..Len(stack[t]) :
    /\ stack[t][i].op = "commit"
    /\ stack[t][i].pc = "await_hook"
    /\ stack[t][i].live

\* C11: provided no hook raises: once its COMMIT has succeeded, an outermost
\* commit() calls the functions of afterCommitFunctions one after the other
\* in the order of the list, each awaited before the next, and ends with the
\* list empty, so that no later commit calls them again; such a pass never
\* starts while another pass over the same functions is still going on; a
\* nested commit() and a rollback() call no function.
C11_AfterCommitHooksOnce ==
  [][/\ (At(Main, "commit", "await_commit") /\ beginCounter' = 0)
          => IF afterCommitFunctions = <<>>
               THEN Returned(Main, "ok")
               ELSE /\ CallsHook(Main)
                    /\ TopNext(Main).fn = afterCommitFunctions[1]
                    /\ ~PassInProgress(Main)
     /\ (At(Main, "commit", "await_hook") /\ ret[Main] = "ok")
          => IF Top(Main).n < Len(afterCommitFunctions)
               THEN /\ CallsHook(Main)
                    /\ TopNext(Main).fn = afterCommitFunctions[Top(Main).n + 1]
                    /\ UNCHANGED afterCommitFunctions
               ELSE /\ Returned(Main, "ok")
                    /\ afterCommitFunctions' = <<>>
     /\ (At(Main, "commit", "start") /\ beginCounter > 1) => ~CallsHook(Main)
     /\ (~Idle(Main) /\ Top(Main).op = "rollback") => ~CallsHook(Main)
    ]_vars

\* the functions registered with afterBegin(), as they are named in the model
IsAfterBeginHook(fn) == fn > 0

\* C12: a begin() whose BEGIN has succeeded was entered at depth 0, sets
\* depth to 1 and then calls the functions of afterBeginFunctions one after
\* the other in the order of the list; a begin() at depth > 0 only counts;
\* no other step calls an after-begin function (no commit(), no
\* rollback()); the list only ever grows, so every later outermost begin()
\* calls the same functions again.
C12_AfterBeginHooks ==
  [][/\ (At(Main, "begin", "await_begin") /\ beginCounter' # beginCounter)
          => /\ beginCounter = 0 /\ beginCounter' = 1
             /\ IF afterBeginFunctions = <<>>
                  THEN Returned(Main, "ok")
                  ELSE /\ CallsHook(Main)
                       /\ TopNext(Main).fn = afterBeginFunctions[1]
     /\ (At(Main, "begin", "await_hook") /\ ret[Main] = "ok")
          => IF Top(Main).n < Len(afterBeginFunctions)
               THEN /\ CallsHook(Main)
                    /\ TopNext(Main).fn = afterBeginFunctions[Top(Main).n + 1]
               ELSE Returned(Main, "ok")
     /\ (At(Main, "begin", "start") /\ beginCounter > 0)
          => /\ Returned(Main, "ok")
             /\ beginCounter' = beginCounter + 1
             /\ UNCHANGED <<client, throwingWrongCommitOrRollbackError,
                            afterCommitFunctions, pool>>
     /\ (CallsHook(Main) /\ IsAfterBeginHook(TopNext(Main).fn))
          => /\ Top(Main).op = "begin"
             /\ Top(Main).pc \in {"await_begin", "await_hook"}
     /\ Len(afterBeginFunctions') >= Len(afterBeginFunctions)
     /\ SubSeq(afterBeginFunctions', 1, Len(afterBeginFunctions))
          = afterBeginFunctions
    ]_vars

\* the outermost begin() of a later transaction, run by an after-commit
\* function of the one before, calls an after-begin function
C12_Witness ==
  /\ At(Main, "hook", "start")
  /\ IsAfterBeginHook(Top(Main).fn)
  /\ HasCaller(Main, "begin", "await_hook")
  /\ beginCounter = 1
  /\ PassInProgress(Main)

C14_QueryUsesHeldConnection ==
  [][At(Main, "query", "start")
        => /\ ~Popped(Main)
           /\ TopNext(Main).conn = IF client # None THEN client ELSE Pool
    ]_vars

\* C15: when the rollback() of the catch block has failed, runInTransaction()
\* ends with the error that wraps the failure of the rollback, and the
\* connection is back in the pool.
C15_RollbackFailureForcesRelease ==
  [][(At(Main, "runInTransaction", "await_rollback") /\ ret[Main] \in Errors)
        => /\ Returned(Main, "RollbackFailure")
           /\ client' = None
           /\ checkedOut' = {}
    ]_vars

\* C16: a runInTransaction() that ends in its catch block without a failed
\* rollback() ends with the error that entered the catch block: when no
\* rollback() is attempted, the error of begin(), of the body or of commit()
\* that it has just received; after a rollback() that succeeded, the error it
\* kept.
C16_RaisesOriginalError ==
  [][/\ (~Idle(Main) /\ Top(Main).op = "runInTransaction"
           /\ Top(Main).pc \in {"await_begin", "await_code", "await_commit"}
           /\ ret[Main] \in Errors /\ Popped(Main))
          => ret'[Main] = ret[Main]
     /\ (At(Main, "runInTransaction", "await_rollback") /\ ret[Main] = "ok")
          => Returned(Main, Top(Main).e)
    ]_vars

\* C17: when begin(), commit(), rollback() or release() ends without an
\* error, the misuse flag is false.
C17_SuccessResetsFlag ==
  [][(~Idle(Main) /\ Top(Main).op \in {"begin", "commit", "rollback", "release"}
        /\ Returned(Main, "ok"))
        => ~throwingWrongCommitOrRollbackError'
    ]_vars

\* C18: when an error reaches the catch block of runInTransaction() with
\* depth > 0 and the misuse flag true, runInTransaction() calls no
\* rollback() and ends, and the manager then holds no connection and none is
\* checked out.
C18_FlaggedCleanupReleases ==
  [][(~Idle(Main) /\ Top(Main).op = "runInTransaction"
        /\ Top(Main).pc \in {"await_begin", "await_code", "await_commit"}
        /\ ret[Main] \in Errors
        /\ beginCounter > 0 /\ throwingWrongCommitOrRollbackError)
        => /\ Popped(Main)
           /\ ret'[Main] \in Errors
           /\ client' = None
           /\ checkedOut' = {}
    ]_vars

\* C19: when an after-begin function has thrown, begin() calls no further
\* function, ends with that error and changes nothing in the manager or the
\* pool (it sends no ROLLBACK); if the functions called nothing on the
\* manager, depth is 1, the connection is held and BEGIN is outstanding
\* on it.
C19_AfterBeginHookRaises ==
  [][(At(Main, "begin", "await_hook") /\ ret[Main] \in Errors)
        => /\ Returned(Main, ret[Main])
           /\ UNCHANGED <<mgr, pool>>
           /\ calls = 0
                => /\ beginCounter' = 1
                   /\ client' \in checkedOut'
                   /\ txOpen'[client']
    ]_vars

\* the first of two after-begin functions has thrown
C19_Witness ==
  /\ At(Main, "begin", "await_hook")
  /\ ret[Main] \in Errors
  /\ Top(Main).n < Len(afterBeginFunctions)
  /\ calls = 0

C21_RaisingHookKeepsList ==
  [][/\ (At(Main, "commit", "await_hook") /\ ret[Main] \in Errors)
          => /\ Popped(Main)
             /\ afterCommitFunctions' = afterCommitFunctions
     /\ (At(Main, "commit", "await_commit") /\ beginCounter' = 0
           /\ afterCommitFunctions # <<>>)
          => /\ CallsHook(Main)
             /\ TopNext(Main).fn = afterCommitFunctions[1]
             /\ UNCHANGED afterCommitFunctions
    ]_vars

\* the second of two after-commit functions has thrown, the first one
\* having returned
C21_Witness ==
  /\ At(Main, "commit", "await_hook")
  /\ ret[Main] \in Errors
  /\ Top(Main).n = 2
  /\ Len(afterCommitFunctions) = 2
  /\ Top(Main).live

\* C22: between two calls of the caller, the list afterCommitFunctions is
\* empty whenever depth is 0.
C22_ListEmptyAtDepthZero ==
  (Idle(Main) /\ beginCounter = 0) => afterCommitFunctions = <<>>

\* both begin() calls have returned without an error and nothing was called
\* since
JustBegun ==
  /\ \A t \in Flows : Idle(t) /\ ret[t] = "ok"
  /\ tally.ROLLBACK = 0

\* C23: two begin() calls that overlap are not serialized.  Every begin()
\* that finds depth 0 when it tests it sends BEGIN, whatever the other call
\* has in flight, and every connect() that finds no client asks the pool; a
\* connection that is checked out and is not in the client field is never
\* released; once both calls have returned, depth is 2, the after-begin
\* functions have been called once per BEGIN, and every connection acquired
\* is still checked out, one of them in the client field.  The interleaving
\* with two acquisitions, two BEGINs and two rounds of after-begin functions
\* exists (C23_Witness).
C23_OverlappingBegins ==
  [][/\ tally'.BEGIN > tally.BEGIN => beginCounter = 0
     /\ \A t \in Flows :
          (At(t, "connect", "start") /\ client = None /\ stack'[t] # stack[t])
            => TopNext(t).pc = "await_pool"
     /\ \A c \in checkedOut : c # client => c \in checkedOut'
     /\ JustBegun'
          => /\ beginCounter' = 2
             /\ tally'.BEGIN \in 1..2
             /\ tally'.acquire \in 1..2
             /\ tally'.afterBegin = tally'.BEGIN * Len(afterBeginFunctions')
             /\ tally'.release = 0
             /\ Cardinality(checkedOut') = tally'.acquire
             /\ client' \in checkedOut'
    ]_vars

\* both calls have returned: two connections acquired and two BEGINs sent,
\* the after-begin function called twice, depth 2, and a connection with
\* BEGIN outstanding that the manager no longer knows
C23_Witness ==
  /\ JustBegun
  /\ tally.acquire = 2
  /\ tally.BEGIN = 2
  /\ Len(afterBeginFunctions) = 1
  /\ tally.afterBegin = 2
  /\ beginCounter = 2
  /\ \E c \in checkedOut : c # client /\ txOpen[c]

\* a statement of this kind is sent in this step by the frame on top
Sends(t, pc) ==
  /\ ~Idle(t)
  /\ Len(stack'[t]) = Len(stack[t])
  /\ Top(t).pc # pc
  /\ TopNext(t).pc = pc

\* C24: under sequential use, where the caller, a body or a hook has
\* control, BEGIN is outstanding on a connection exactly when it is the held
\* connection and depth >= 1; BEGIN is sent only on a connection with no
\* BEGIN outstanding, COMMIT and ROLLBACK only on one with BEGIN outstanding;
\* and a connection that goes back to the pool has no BEGIN outstanding.
C24_PhysicalTransactionMatchesDepth ==
  [][/\ (Idle(Main) \/ IsCode(Main))
          => \A c \in Conns : txOpen[c] <=> (c = client /\ beginCounter >= 1)
     /\ Sends(Main, "await_begin") /\ Top(Main).op = "begin"
          => ~txOpen[TopNext(Main).conn]
     /\ Sends(Main, "await_commit") /\ Top(Main).op = "commit"
          => txOpen[TopNext(Main).conn]
     /\ Sends(Main, "await_rollback") /\ Top(Main).op = "rollback"
          => txOpen[TopNext(Main).conn]
     /\ \A c \in checkedOut \ checkedOut' : ~txOpen'[c]
    ]_vars

\* an after-commit function of one transaction has opened the next one on
\* the connection and nested a begin() in it
C24_Witness ==
  /\ IsCode(Main)
  /\ beginCounter = 2
  /\ txOpen[client]
  /\ Len(stack[Main]) >= 2
  /\ stack[Main][1].op = "commit"

\* the frame is a commit() in the middle of its pass over the array that the
\* field afterCommitFunctions holds
InPass(f) == f.op = "commit" /\ f.pc = "await_hook" /\ f.live

\* C25: no commit() starts a pass over the after-commit functions while the
\* pass of another commit() over the same functions is still going on: a
\* commit() run by an after-commit function calls none of the functions of
\* the pass it runs in.
C25_NoPassInsidePass ==
  \A i, j \in 1..Len(stack[Main]) :
    (i < j /\ InPass(stack[Main][i])) => ~InPass(stack[Main][j])

\* C26: a query() called by the body of a runInTransaction() that was
\* entered at depth 0 is sent on the held connection, on which BEGIN is
\* outstanding, whatever the body has called before.
C26_BodyQueriesInTransaction ==
  [][(At(Main, "query", "start")
        /\ Len(stack[Main]) = 3
        /\ stack[Main][1].op = "runInTransaction" /\ stack[Main][1].n = 0
        /\ stack[Main][2].op = "body")
        => /\ ~Popped(Main)
           /\ TopNext(Main).conn = client
           /\ client # None
           /\ txOpen[client]
    ]_vars

=============================================================================
